---- MODULE Spec2Model ----
(***************************************************************************)
(* Model of src/main.py: the net-salary calculator for Uruguay (POST       *)
(* /calcular) and the pure functions it is built from.                     *)
(*                                                                         *)
(* Representation of numbers.  The program computes in Python floats.      *)
(* Here every amount of money is an integer number of thousandths of a     *)
(* peso and every rate an integer number of thousandths (0.045 is 45,      *)
(* 1.06 is 1060, 0.24 is 240).  The inputs are drawn from sets on which    *)
(* every product amount * rate is a whole number of thousandths of a peso, *)
(* so the arithmetic below is the exact decimal arithmetic of the program  *)
(* on those inputs (ExactArithmetic states it); binary rounding error of   *)
(* the floats is not represented.  All values stay below 2^31.             *)
(***************************************************************************)
EXTENDS Integers, Sequences, FiniteSets, TLC

VARIABLES pc, datos, respuesta, base_arg, irpf_ret, fonasa_ret

vars == <<pc, datos, respuesta, base_arg, irpf_ret, fonasa_ret>>

(* n pesos in thousandths of a peso *)
Pesos(n) == n * 1000

Min(a, b) == IF a < b THEN a ELSE b

Max(a, b) == IF a > b THEN a ELSE b

(* ------------------------------------------------------------------ *)
(* Constants of the program                                           *)
(* ------------------------------------------------------------------ *)

BPC_2025 == 6576

(* float("inf"), the upper bound of the last bracket *)
INF == -1

(* desde and hasta in BPC, tasa in thousandths *)
FRANJAS_IRPF ==
  << [desde |-> 0,   hasta |-> 7,   tasa |-> 0],
     [desde |-> 7,   hasta |-> 10,  tasa |-> 100],
     [desde |-> 10,  hasta |-> 15,  tasa |-> 150],
     [desde |-> 15,  hasta |-> 30,  tasa |-> 240],
     [desde |-> 30,  hasta |-> 50,  tasa |-> 250],
     [desde |-> 50,  hasta |-> 75,  tasa |-> 270],
     [desde |-> 75,  hasta |-> 115, tasa |-> 310],
     [desde |-> 115, hasta |-> INF, tasa |-> 360] >>

(* Field(gt=23604) of SalarioRequest.salario_nominal, in pesos *)
SALARIO_MINIMO == 23604

TASA_JUBILATORIO == 150

TASA_FONASA_BASE == 45

TASA_FONASA_REDUCIDA == 30

TASA_FRL == 1

FICTO_IRPF == 1060

(* ------------------------------------------------------------------ *)
(* Arithmetic                                                         *)
(* ------------------------------------------------------------------ *)

(* monto * tasa, tasa in thousandths; split so that no intermediate      *)
(* product leaves 32 bits.  Exact when monto * tasa is a multiple of 1000 *)
Por(monto, tasa) ==
  (monto \div 1000) * tasa + ((monto % 1000) * tasa) \div 1000

(* one doubling step of MulDiv: from <<q, r>> for m \div 2 to <<q, r>>   *)
(* for m                                                                 *)
MulDivStep(h, d, m, n) ==
  LET r2 == 2 * h[2]
      q2 == 2 * h[1] + (IF r2 >= n THEN 1 ELSE 0)
      r3 == IF r2 >= n THEN r2 - n ELSE r2
      r4 == IF m % 2 = 1 THEN r3 + d ELSE r3
  IN  IF r4 >= n THEN <<q2 + 1, r4 - n>> ELSE <<q2, r4>>

(* <<q, r>> with d * m = q * n + r and 0 <= r < n, for 0 <= d < n and     *)
(* m >= 0, by doubling, so that nothing exceeds 2 * n                    *)
RECURSIVE MulDiv(_, _, _)
MulDiv(d, m, n) ==
  IF m = 0 THEN <<0, 0>>
  ELSE MulDivStep(MulDiv(d, m \div 2, n), d, m, n)

(* round(x / n * 100, 2) in hundredths of a percent, ties to even as     *)
(* Python's round; x may be negative or exceed n                         *)
RoundPorcentaje(x, n) ==
  LET whole == x \div n
      qr    == MulDiv(x % n, 10000, n)
      q     == whole * 10000 + qr[1]
      r     == qr[2]
  IN  IF 2 * r > n THEN q + 1
      ELSE IF 2 * r < n THEN q
      ELSE IF q % 2 = 0 THEN q ELSE q + 1

(* ------------------------------------------------------------------ *)
(* calcular_tasa_fonasa                                               *)
(* ------------------------------------------------------------------ *)

(* salario_nominal / BPC_2025 < 2.5, without the division *)
MenosDe2y5Bpc(salario_nominal) == salario_nominal * 2 < Pesos(BPC_2025) * 5

(* mutant: the reduced-rate band closed at 2.5 BPC *)
calcular_tasa_fonasa_le(salario_nominal, hijos_a_cargo, conyuge_a_cargo) ==
  IF salario_nominal * 2 <= Pesos(BPC_2025) * 5
  THEN IF hijos_a_cargo > 0 \/ conyuge_a_cargo
       THEN TASA_FONASA_REDUCIDA ELSE TASA_FONASA_BASE
  ELSE TASA_FONASA_BASE

calcular_tasa_fonasa(salario_nominal, hijos_a_cargo, conyuge_a_cargo) ==
  LET tasa_base == TASA_FONASA_BASE
  IN  IF MenosDe2y5Bpc(salario_nominal)
      THEN IF hijos_a_cargo > 0 \/ conyuge_a_cargo
           THEN TASA_FONASA_REDUCIDA
           ELSE tasa_base
      ELSE IF hijos_a_cargo > 0 \/ conyuge_a_cargo
           THEN tasa_base
           ELSE tasa_base

(* ------------------------------------------------------------------ *)
(* calcular_irpf                                                      *)
(* ------------------------------------------------------------------ *)

(* f"{franja['desde']} - {franja['hasta']} BPC" *)
EtiquetaFranja(franja) ==
  ToString(franja.desde) \o " - "
    \o (IF franja.hasta = INF THEN "inf" ELSE ToString(franja.hasta))
    \o " BPC"

desde_pesos(franja) == Pesos(franja.desde * BPC_2025)

hasta_pesos(franja) ==
  IF franja.hasta # INF THEN Pesos(franja.hasta * BPC_2025) ELSE INF

(* min(base_restante, hasta_pesos - desde_pesos), the width of the last  *)
(* bracket being infinite                                                *)
monto_en_franja(franja, base_restante) ==
  IF hasta_pesos(franja) = INF
  THEN base_restante
  ELSE Min(base_restante, hasta_pesos(franja) - desde_pesos(franja))

(* what one bracket adds: the tax, the breakdown entry, the rest *)
Gravar(franja, st, monto, impuesto) ==
  [irpf_total    |-> st.irpf_total + impuesto,
   detalle       |-> Append(st.detalle,
                       [franja        |-> EtiquetaFranja(franja),
                        monto_gravado |-> monto,
                        tasa          |-> franja.tasa,
                        impuesto      |-> impuesto]),
   base_restante |-> st.base_restante - monto]

(* mutant: the bracket is entered when what is left, not the base,       *)
(* exceeds its lower bound                                               *)
irpf_franja_restante(franja, st, base_irpf) ==
  LET monto == monto_en_franja(franja, st.base_restante)
  IN  IF st.base_restante > desde_pesos(franja) /\ monto > 0
      THEN Gravar(franja, st, monto, Por(monto, franja.tasa))
      ELSE st

(* mutant: the bracket's rate is applied to the whole base *)
irpf_franja_no_marginal(franja, st, base_irpf) ==
  LET monto == monto_en_franja(franja, st.base_restante)
  IN  IF base_irpf > desde_pesos(franja) /\ monto > 0
      THEN Gravar(franja, st, monto, Por(base_irpf, franja.tasa))
      ELSE st

(* mutant: a bracket is listed only when it owes tax *)
irpf_franja_sin_exenta(franja, st, base_irpf) ==
  LET monto == monto_en_franja(franja, st.base_restante)
  IN  IF base_irpf > desde_pesos(franja) /\ Por(monto, franja.tasa) > 0
      THEN Gravar(franja, st, monto, Por(monto, franja.tasa))
      ELSE IF base_irpf > desde_pesos(franja) /\ monto > 0
      THEN [st EXCEPT !.base_restante = @ - monto]
      ELSE st

(* the body of the loop after the break test, for one bracket *)
irpf_franja(franja, st, base_irpf) ==
  LET monto == monto_en_franja(franja, st.base_restante)
  IN  IF base_irpf > desde_pesos(franja)
      THEN IF monto > 0
           THEN Gravar(franja, st, monto, Por(monto, franja.tasa))
           ELSE st
      ELSE st

(* for franja in FRANJAS_IRPF, with its break on base_restante <= 0 *)
RECURSIVE irpf_loop(_, _, _)
irpf_loop(i, st, base_irpf) ==
  IF i > Len(FRANJAS_IRPF) THEN st
  ELSE IF st.base_restante <= 0 THEN st
  ELSE irpf_loop(i + 1, irpf_franja(FRANJAS_IRPF[i], st, base_irpf), base_irpf)

calcular_irpf(base_irpf) ==
  LET st == irpf_loop(1, [irpf_total    |-> 0,
                          detalle       |-> <<>>,
                          base_restante |-> base_irpf], base_irpf)
  IN  [irpf_total |-> st.irpf_total, detalle |-> st.detalle]

(* ------------------------------------------------------------------ *)
(* calcular_deducciones_irpf                                          *)
(* ------------------------------------------------------------------ *)

(* 0.5 * BPC_2025 *)
MedioBpc == Pesos(BPC_2025) \div 2

calcular_deducciones_irpf(hijos_a_cargo, conyuge_a_cargo, deducciones_adicionales) ==
  LET d0 == 0
      d1 == d0 + hijos_a_cargo * MedioBpc
      d2 == IF conyuge_a_cargo THEN d1 + MedioBpc ELSE d1
      d3 == d2 + deducciones_adicionales
  IN  d3

(* ------------------------------------------------------------------ *)
(* SalarioRequest: the validation of the request body                 *)
(* ------------------------------------------------------------------ *)

(* mutant: ge instead of gt *)
salario_nominal_ge(salario_nominal) == salario_nominal >= Pesos(SALARIO_MINIMO)

(* mutant: gt=0, as the comment beside the field says *)
salario_nominal_gt0(salario_nominal) == salario_nominal > 0

(* Field(gt=23604) *)
salario_nominal_ok(salario_nominal) == salario_nominal > Pesos(SALARIO_MINIMO)

(* Field(ge=0) *)
hijos_a_cargo_ok(hijos_a_cargo) == hijos_a_cargo >= 0

(* Field(ge=0) *)
deducciones_adicionales_ok(deducciones_adicionales) == deducciones_adicionales >= 0

(* the fields of the body that fail validation *)
ErroresValidacion(req) ==
  (IF salario_nominal_ok(req.salario_nominal) THEN {} ELSE {"salario_nominal"})
    \cup (IF hijos_a_cargo_ok(req.hijos_a_cargo) THEN {} ELSE {"hijos_a_cargo"})
    \cup (IF deducciones_adicionales_ok(req.deducciones_adicionales)
          THEN {} ELSE {"deducciones_adicionales"})

(* ------------------------------------------------------------------ *)
(* calcular_salario_liquido: the steps of the handler                 *)
(* ------------------------------------------------------------------ *)

(* mutant: the labour fund left out of the total *)
total_aportes_sin_frl(aporte_jubilatorio, aporte_fonasa, aporte_frl) ==
  aporte_jubilatorio + aporte_fonasa

total_aportes(aporte_jubilatorio, aporte_fonasa, aporte_frl) ==
  aporte_jubilatorio + aporte_fonasa + aporte_frl

(* mutant: the uplift from 10 BPC on *)
base_para_irpf_ge(salario_nominal, total_aportes_bps) ==
  IF salario_nominal >= Pesos(10 * BPC_2025)
  THEN Por(salario_nominal, FICTO_IRPF) - total_aportes_bps
  ELSE salario_nominal - total_aportes_bps

(* salario_en_bpc > 10 is salario_nominal / BPC_2025 > 10 *)
base_para_irpf(salario_nominal, total_aportes_bps) ==
  IF salario_nominal > Pesos(10 * BPC_2025)
  THEN Por(salario_nominal, FICTO_IRPF) - total_aportes_bps
  ELSE salario_nominal - total_aportes_bps

(* mutant: the max(0, ...) forgotten *)
irpf_neto_sin_max(irpf_bruto, deducciones_irpf) == irpf_bruto - deducciones_irpf

irpf_neto_de(irpf_bruto, deducciones_irpf) == Max(0, irpf_bruto - deducciones_irpf)

(* mutant: the tax left out of the net salary *)
salario_liquido_sin_irpf(salario_nominal, total_aportes_bps, irpf_neto) ==
  salario_nominal - total_aportes_bps

salario_liquido_de(salario_nominal, total_aportes_bps, irpf_neto) ==
  salario_nominal - total_aportes_bps - irpf_neto

(* tasa_fonasa and aporte_fonasa = salario_nominal * tasa_fonasa *)
ContribucionFonasa(salario_nominal, hijos_a_cargo, conyuge_a_cargo) ==
  LET tasa_fonasa == calcular_tasa_fonasa(salario_nominal, hijos_a_cargo, conyuge_a_cargo)
  IN  [tasa_fonasa   |-> tasa_fonasa,
       aporte_fonasa |-> Por(salario_nominal, tasa_fonasa)]

(* the SalarioResponse of a validated request *)
SalarioResponse(req) ==
  LET salario_nominal    == req.salario_nominal
      aporte_jubilatorio == Por(salario_nominal, TASA_JUBILATORIO)
      fonasa             == ContribucionFonasa(salario_nominal,
                              req.hijos_a_cargo, req.conyuge_a_cargo)
      tasa_fonasa        == fonasa.tasa_fonasa
      aporte_fonasa      == fonasa.aporte_fonasa
      aporte_frl         == Por(salario_nominal, TASA_FRL)
      total_aportes_bps  == total_aportes(aporte_jubilatorio, aporte_fonasa, aporte_frl)
      base_irpf          == base_para_irpf(salario_nominal, total_aportes_bps)
      irpf               == calcular_irpf(base_irpf)
      irpf_bruto         == irpf.irpf_total
      detalle_irpf       == irpf.detalle
      deducciones_irpf   == calcular_deducciones_irpf(req.hijos_a_cargo,
                              req.conyuge_a_cargo, req.deducciones_adicionales)
      irpf_neto          == irpf_neto_de(irpf_bruto, deducciones_irpf)
      salario_liquido    == salario_liquido_de(salario_nominal, total_aportes_bps, irpf_neto)
  IN  [calculos |->
         [salario_nominal      |-> salario_nominal,
          aporte_jubilatorio   |-> aporte_jubilatorio,
          aporte_fonasa        |-> aporte_fonasa,
          aporte_frl           |-> aporte_frl,
          total_aportes_bps    |-> total_aportes_bps,
          base_irpf            |-> base_irpf,
          irpf_bruto           |-> irpf_bruto,
          deducciones_irpf     |-> deducciones_irpf,
          irpf_neto            |-> irpf_neto,
          salario_liquido      |-> salario_liquido,
          tasa_fonasa_aplicada |-> tasa_fonasa,
          detalle_irpf         |-> detalle_irpf],
       porcentaje_descuento_total |->
          RoundPorcentaje(salario_nominal - salario_liquido, salario_nominal),
       bpc_usado |-> BPC_2025]

(* ------------------------------------------------------------------ *)
(* Bounds and input sets                                              *)
(* ------------------------------------------------------------------ *)

MaxHijos == 2

(* the salary grid: k * 25 * PasoSalario pesos, k up to MaxSalarioK *)
PasoSalario == 100

MaxSalarioK == 400

(* the taxable-base grid: k * PasoBase tenths of a peso, k up to MaxBaseK *)
PasoBase == 50000

MaxBaseK == 170

(* the low-salary grid of calcular_tasa_fonasa: k * 500 pesos *)
MaxFonasaK == 40

(* salaries at the thresholds of the program: the minimum wage, 10 BPC,  *)
(* and the salary of the scenario of the documentation                   *)
SalariosFrontera ==
  { Pesos(SALARIO_MINIMO - 1), Pesos(SALARIO_MINIMO), Pesos(SALARIO_MINIMO + 1),
    Pesos(30000),
    Pesos(10 * BPC_2025 - 5), Pesos(10 * BPC_2025), Pesos(10 * BPC_2025 + 5) }

Salarios ==
  { Pesos(25 * PasoSalario * k) : k \in -1 .. MaxSalarioK } \cup SalariosFrontera

Deducciones ==
  { Pesos(-1), 0, 500, Pesos(1500), Pesos(40000), Pesos(300000) }

Requests ==
  [salario_nominal         : Salarios,
   hijos_a_cargo           : -1 .. MaxHijos,
   conyuge_a_cargo         : BOOLEAN,
   deducciones_adicionales : Deducciones]

(* taxable bases: a grid, and each bracket's lower bound with its two    *)
(* neighbours a tenth of a peso away                                     *)
BasesIrpf ==
  { 100 * PasoBase * k : k \in -2 .. MaxBaseK }
    \cup UNION { { desde_pesos(FRANJAS_IRPF[i]) - 100,
                   desde_pesos(FRANJAS_IRPF[i]),
                   desde_pesos(FRANJAS_IRPF[i]) + 100 } : i \in DOMAIN FRANJAS_IRPF }

SalariosFonasa ==
  Salarios
    \cup { Pesos(500 * k) : k \in 0 .. MaxFonasaK }
    \cup { MedioBpc * 5 - Pesos(1), MedioBpc * 5, MedioBpc * 5 + Pesos(1) }

ArgsFonasa ==
  [salario_nominal         : SalariosFonasa,
   hijos_a_cargo           : 0 .. MaxHijos,
   conyuge_a_cargo         : BOOLEAN,
   deducciones_adicionales : {0}]

(* ------------------------------------------------------------------ *)
(* The service: one request at a time, nothing kept between requests  *)
(* ------------------------------------------------------------------ *)

SinDatos ==
  [salario_nominal |-> 0, hijos_a_cargo |-> 0, conyuge_a_cargo |-> FALSE,
   deducciones_adicionales |-> 0]

SinRespuesta == [status |-> 0, errores |-> {}, body |-> <<>>]

SinIrpf == [irpf_total |-> 0, detalle |-> <<>>]

SinFonasa == [tasa_fonasa |-> 0, aporte_fonasa |-> 0]

Init ==
  /\ pc = "esperando"
  /\ datos = SinDatos
  /\ respuesta = SinRespuesta
  /\ base_arg = 0
  /\ irpf_ret = SinIrpf
  /\ fonasa_ret = SinFonasa

(* the body fails the Field constraints of SalarioRequest: the framework *)
(* answers 422 with the failing fields and the handler is not called     *)
RequestValidationError ==
  /\ pc = "esperando"
  /\ \E req \in Requests :
        /\ ErroresValidacion(req) # {}
        /\ pc' = "respondido"
        /\ datos' = req
        /\ respuesta' = [status  |-> 422,
                         errores |-> ErroresValidacion(req),
                         body    |-> <<>>]
  /\ UNCHANGED <<base_arg, irpf_ret, fonasa_ret>>

(* POST /calcular with a valid body: the whole handler.  Its except     *)
(* branch (HTTP 400) needs an arithmetic exception, which no finite      *)
(* request of Requests raises (salario_nominal, the only divisor, is     *)
(* above the minimum wage), so it has no action here                     *)
calcular_salario_liquido ==
  /\ pc = "esperando"
  /\ \E req \in Requests :
        /\ ErroresValidacion(req) = {}
        /\ pc' = "respondido"
        /\ datos' = req
        /\ respuesta' = [status  |-> 200,
                         errores |-> {},
                         body    |-> <<SalarioResponse(req)>>]
  /\ UNCHANGED <<base_arg, irpf_ret, fonasa_ret>>

(* the response is sent; the request's values are discarded *)
Responder ==
  /\ pc = "respondido"
  /\ pc' = "esperando"
  /\ datos' = SinDatos
  /\ respuesta' = SinRespuesta
  /\ UNCHANGED <<base_arg, irpf_ret, fonasa_ret>>

Next ==
  \/ RequestValidationError
  \/ calcular_salario_liquido
  \/ Responder

Spec == Init /\ [][Next]_vars

(* ------------------------------------------------------------------ *)
(* calcular_irpf alone, on every base of BasesIrpf                    *)
(* ------------------------------------------------------------------ *)

InitIrpf ==
  /\ pc = "llamada"
  /\ base_arg \in BasesIrpf
  /\ irpf_ret = SinIrpf
  /\ datos = SinDatos
  /\ respuesta = SinRespuesta
  /\ fonasa_ret = SinFonasa

LlamarIrpf ==
  /\ pc = "llamada"
  /\ pc' = "retorno"
  /\ irpf_ret' = calcular_irpf(base_arg)
  /\ UNCHANGED <<datos, respuesta, base_arg, fonasa_ret>>

NextIrpf == LlamarIrpf

SpecIrpf == InitIrpf /\ [][NextIrpf]_vars

(* ------------------------------------------------------------------ *)
(* calcular_tasa_fonasa and the health contribution alone, on every   *)
(* salary, below the minimum wage too                                 *)
(* ------------------------------------------------------------------ *)

InitFonasa ==
  /\ pc = "llamada"
  /\ datos \in ArgsFonasa
  /\ fonasa_ret = SinFonasa
  /\ respuesta = SinRespuesta
  /\ base_arg = 0
  /\ irpf_ret = SinIrpf

LlamarFonasa ==
  /\ pc = "llamada"
  /\ pc' = "retorno"
  /\ fonasa_ret' = ContribucionFonasa(datos.salario_nominal,
                      datos.hijos_a_cargo, datos.conyuge_a_cargo)
  /\ UNCHANGED <<datos, respuesta, base_arg, irpf_ret>>

NextFonasa == LlamarFonasa

SpecFonasa == InitFonasa /\ [][NextFonasa]_vars

(* ------------------------------------------------------------------ *)
(* Well-formedness of the model                                       *)
(* ------------------------------------------------------------------ *)

RECURSIVE TodosExactos(_)
TodosExactos(detalle) ==
  IF detalle = <<>> THEN TRUE
  ELSE /\ ((Head(detalle).monto_gravado % 1000) * Head(detalle).tasa) % 1000 = 0
       /\ TodosExactos(Tail(detalle))

(* every product of the run is a whole number of thousandths of a peso, *)
(* so Por never rounds                                                   *)
ExactArithmetic ==
  /\ (pc = "respondido" /\ respuesta.status = 200) =>
        /\ datos.salario_nominal % 1000 = 0
        /\ TodosExactos(respuesta.body[1].calculos.detalle_irpf)
  /\ pc = "retorno" =>
        /\ TodosExactos(irpf_ret.detalle)
        /\ datos.salario_nominal % 1000 = 0

(* ------------------------------------------------------------------ *)
(* Properties                                                         *)
(* ------------------------------------------------------------------ *)

(* the request is valid as the documentation defines it *)
DatosValidos ==
  /\ datos.salario_nominal > Pesos(23604)
  /\ datos.hijos_a_cargo >= 0
  /\ datos.deducciones_adicionales >= 0

(* the handler has answered with a result *)
Respondido200 == pc = "respondido" /\ respuesta.status = 200

Calculos == respuesta.body[1].calculos

RECURSIVE SumaMontos(_)
SumaMontos(detalle) ==
  IF detalle = <<>> THEN 0
  ELSE Head(detalle).monto_gravado + SumaMontos(Tail(detalle))

RECURSIVE SumaMontoPorTasa(_)
SumaMontoPorTasa(detalle) ==
  IF detalle = <<>> THEN 0
  ELSE Por(Head(detalle).monto_gravado, Head(detalle).tasa)
         + SumaMontoPorTasa(Tail(detalle))

(* the bracket table as the documentation gives it: lower and upper     *)
(* bound in BPC (0 for no upper bound), rate in thousandths, label       *)
TablaDocumentada ==
  << <<0, 7, 0, "0 - 7 BPC">>,       <<7, 10, 100, "7 - 10 BPC">>,
     <<10, 15, 150, "10 - 15 BPC">>, <<15, 30, 240, "15 - 30 BPC">>,
     <<30, 50, 250, "30 - 50 BPC">>, <<50, 75, 270, "50 - 75 BPC">>,
     <<75, 115, 310, "75 - 115 BPC">>, <<115, 0, 360, "115 - inf BPC">> >>

Inferior(i) == TablaDocumentada[i][1] * 6576 * 1000

(* max(0, min(B, upper_i * BPC) - lower_i * BPC) *)
Tramo(i, B) ==
  LET tope == IF TablaDocumentada[i][2] = 0
              THEN B
              ELSE Min(B, TablaDocumentada[i][2] * 6576 * 1000)
  IN  Max(0, tope - Inferior(i))

RECURSIVE ImpuestoMarginal(_, _)
ImpuestoMarginal(i, B) ==
  IF i = 0 THEN 0
  ELSE Por(Tramo(i, B), TablaDocumentada[i][3]) + ImpuestoMarginal(i - 1, B)

(* C1: for every valid request the handler answers with a result in     *)
(* which salario_liquido = salario_nominal - total_aportes_bps -         *)
(* irpf_neto and salario_liquido <= salario_nominal.                     *)
C1_SalarioLiquido ==
  (pc = "respondido" /\ DatosValidos) =>
     /\ respuesta.status = 200
     /\ Calculos.salario_nominal = datos.salario_nominal
     /\ Calculos.salario_liquido =
          Calculos.salario_nominal - Calculos.total_aportes_bps - Calculos.irpf_neto
     /\ Calculos.salario_liquido <= Calculos.salario_nominal

C1_Witness ==
  /\ Respondido200
  /\ DatosValidos
  /\ Calculos.irpf_neto > 0
  /\ Calculos.salario_liquido < Calculos.salario_nominal - Calculos.total_aportes_bps

(* C2: for every valid request irpf_neto >= 0 and irpf_neto =            *)
(* max(0, irpf_bruto - deducciones_irpf), the deductions being half a    *)
(* BPC per child, half a BPC for the spouse and the additional           *)
(* deductions; when they exceed the gross tax, irpf_neto is 0 and the    *)
(* net salary is the gross salary less the contributions.                *)
C2_IrpfNetoNoNegativo ==
  (pc = "respondido" /\ DatosValidos) =>
     /\ respuesta.status = 200
     /\ Calculos.deducciones_irpf =
          datos.hijos_a_cargo * Pesos(3288)
            + (IF datos.conyuge_a_cargo THEN Pesos(3288) ELSE 0)
            + datos.deducciones_adicionales
     /\ Calculos.irpf_neto >= 0
     /\ Calculos.irpf_neto =
          (IF Calculos.irpf_bruto - Calculos.deducciones_irpf > 0
           THEN Calculos.irpf_bruto - Calculos.deducciones_irpf ELSE 0)
     /\ Calculos.deducciones_irpf > Calculos.irpf_bruto =>
          /\ Calculos.irpf_neto = 0
          /\ Calculos.salario_liquido =
               datos.salario_nominal - Calculos.total_aportes_bps

C2_Witness ==
  /\ Respondido200
  /\ datos.hijos_a_cargo > 0
  /\ Calculos.irpf_bruto > 0
  /\ Calculos.deducciones_irpf > Calculos.irpf_bruto
  /\ Calculos.irpf_neto = 0

(* C3: for every base > 0 the monto_gravado of the breakdown of          *)
(* calcular_irpf sum to the base, and the sum of monto_gravado * tasa    *)
(* over the breakdown is the returned irpf_total.                        *)
C3_DesgloseSumaBase ==
  (pc = "retorno" /\ base_arg > 0) =>
     /\ SumaMontos(irpf_ret.detalle) = base_arg
     /\ SumaMontoPorTasa(irpf_ret.detalle) = irpf_ret.irpf_total

C3_Witness ==
  /\ pc = "retorno"
  /\ base_arg > 0
  /\ Len(irpf_ret.detalle) = 8
  /\ SumaMontos(irpf_ret.detalle) = base_arg

(* C4: the total of calcular_irpf is the marginal tax of the documented  *)
(* table, the sum over the eight brackets of rate_i * max(0, min(B,      *)
(* upper_i * BPC) - lower_i * BPC) with BPC = 6576, and every entry of    *)
(* the breakdown taxes, at its own bracket's rate, that bracket's slice   *)
(* only.                                                                 *)
C4_EsquemaMarginal ==
  pc = "retorno" =>
     /\ irpf_ret.irpf_total = ImpuestoMarginal(8, base_arg)
     /\ \A k \in 1 .. Len(irpf_ret.detalle) :
          /\ irpf_ret.detalle[k].tasa = TablaDocumentada[k][3]
          /\ irpf_ret.detalle[k].monto_gravado = Tramo(k, base_arg)
          /\ irpf_ret.detalle[k].impuesto =
               Por(Tramo(k, base_arg), TablaDocumentada[k][3])

C4_Witness ==
  /\ pc = "retorno"
  /\ base_arg > 115 * 6576 * 1000
  /\ irpf_ret.irpf_total = ImpuestoMarginal(8, base_arg)
  /\ irpf_ret.detalle[8].impuesto > 0

C6_BaseIrpf ==
  (pc = "respondido" /\ DatosValidos) =>
     /\ respuesta.status = 200
     /\ datos.salario_nominal % 1000 = 0
     /\ Calculos.base_irpf =
          (IF datos.salario_nominal > Pesos(65760)
           THEN (datos.salario_nominal \div 1000) * 1060 - Calculos.total_aportes_bps
           ELSE datos.salario_nominal - Calculos.total_aportes_bps)

C6_Witness ==
  /\ Respondido200
  /\ datos.salario_nominal = Pesos(65760)
  /\ Calculos.base_irpf = datos.salario_nominal - Calculos.total_aportes_bps

C8_Escenario30000 ==
  (/\ pc = "respondido"
   /\ datos = [salario_nominal |-> Pesos(30000), hijos_a_cargo |-> 0,
               conyuge_a_cargo |-> FALSE, deducciones_adicionales |-> 0]) =>
     /\ respuesta.status = 200
     /\ Calculos.salario_nominal = Pesos(30000)
     /\ Calculos.aporte_jubilatorio = Pesos(4500)
     /\ Calculos.aporte_frl = Pesos(30)
     /\ Calculos.tasa_fonasa_aplicada = 45
     /\ Calculos.aporte_fonasa = Pesos(1350)
     /\ Calculos.total_aportes_bps = Pesos(5880)
     /\ Calculos.base_irpf = Pesos(24120)
     /\ Calculos.irpf_bruto = 0
     /\ Calculos.deducciones_irpf = 0
     /\ Calculos.irpf_neto = 0
     /\ Calculos.salario_liquido = Pesos(24120)
     /\ respuesta.body[1].porcentaje_descuento_total = 1960
     /\ respuesta.body[1].bpc_usado = 6576

C8_Witness ==
  /\ Respondido200
  /\ datos = [salario_nominal |-> Pesos(30000), hijos_a_cargo |-> 0,
              conyuge_a_cargo |-> FALSE, deducciones_adicionales |-> 0]
  /\ Calculos.salario_liquido = Pesos(24120)

(* C9: calcular_irpf returns no tax and an empty breakdown for a base    *)
(* <= 0; for a base B > 0 the breakdown lists, in the order of the       *)
(* table, exactly the brackets whose lower bound is below B, the 0%      *)
(* bracket first with tax 0; every entry has 0 < monto_gravado <= the    *)
(* bracket's width and every entry but the last the full width.          *)
C9_DesglosePrefijo ==
  pc = "retorno" =>
     /\ base_arg <= 0 => (irpf_ret.irpf_total = 0 /\ irpf_ret.detalle = <<>>)
     /\ base_arg > 0 =>
          LET n == Cardinality({i \in 1 .. 8 : Inferior(i) < base_arg})
          IN  /\ Len(irpf_ret.detalle) = n
              /\ \A i \in 1 .. 8 : Inferior(i) < base_arg <=> i <= n
              /\ irpf_ret.detalle[1].tasa = 0
              /\ irpf_ret.detalle[1].impuesto = 0
              /\ \A k \in 1 .. n :
                   /\ irpf_ret.detalle[k].franja = TablaDocumentada[k][4]
                   /\ irpf_ret.detalle[k].tasa = TablaDocumentada[k][3]
                   /\ irpf_ret.detalle[k].monto_gravado > 0
                   /\ k < 8 => irpf_ret.detalle[k].monto_gravado
                                  <= Inferior(k + 1) - Inferior(k)
                   /\ k < n => irpf_ret.detalle[k].monto_gravado
                                  = Inferior(k + 1) - Inferior(k)

C9_Witness ==
  /\ pc = "retorno"
  /\ base_arg = 10 * 6576 * 1000
  /\ Len(irpf_ret.detalle) = 2
  /\ irpf_ret.detalle[1].impuesto = 0
  /\ irpf_ret.detalle[2].monto_gravado = 3 * 6576 * 1000

====
